---- MODULE Spec2Model ----
(***************************************************************************)
(* Model of assets/js/github-projects.js: the rate-limit friendly request  *)
(* queue (enqueue / pump), the localStorage cache (getCache / setCache),   *)
(* the source fetchers built on both, the topic budget of the organization *)
(* cards, and the repository grid: the manual repositories loader, its     *)
(* hydration, the merge, the filters and the sorts.                        *)
(*                                                                         *)
(* Time is the value of Date.now() in milliseconds.  JavaScript runs the   *)
(* code between two awaits without interruption, so every action below is  *)
(* one such run: from a call or a wake-up to the next await.               *)
(***************************************************************************)
EXTENDS Integers, Sequences, FiniteSets, TLC

\* ---------------------------------------------------------------- bounds
MaxTasks == 3       \* tasks submitted through enqueue in one run of QueueSpec
MaxQueueTicks == 4  \* steps of the clock in one run of QueueSpec
MaxCacheTasks == 2  \* tasks submitted in one run of CacheSpec
MaxCacheTicks == 2  \* steps of the clock in one run of CacheSpec
MaxCards == 9       \* organization cards on the page
MaxRepos == 4       \* repositories left on a card by its filters
MaxManual == 2      \* entries of the manual repositories file
MaxList == 3        \* repositories in a list given to a filter or a sort
MaxBootCards == 3   \* organization cards on the page whose whole boot is followed
MaxThemeEvents == 4 \* page loads, OS changes, clicks and storage clearings followed

\* ------------------------------------------------------- program constants
REQUEST_GAP_MS  == 600
ORG_CACHE_TTL   == 30 * 60 * 1000
GRID_CACHE_TTL  == 30 * 60 * 1000
TOPIC_CACHE_TTL == 7 * 24 * 60 * 60 * 1000
TopicsBudgetCeiling == 32   \* `let GLOBAL_TOPICS_FETCH_BUDGET = 32`
DefaultDeepLimit == 24      \* `topics_deep_limit = 24`, `|| "24"`

\* The five fetchers over the cache and the queue, and the TTL each one uses.
Fetchers == {"orgrepos", "topics", "repodetail", "userrepos", "gridorg"}

TTLOf(f) ==
  CASE f = "orgrepos"   -> ORG_CACHE_TTL
    [] f = "topics"     -> TOPIC_CACHE_TTL
    [] f = "repodetail" -> GRID_CACHE_TTL
    [] f = "userrepos"  -> GRID_CACHE_TTL
    [] f = "gridorg"    -> GRID_CACHE_TTL

\* Identities (user, org or owner/repo) a fetcher is called with.
Idents == {"a"}

\* The cache key of a fetcher for an identity: `gh:<namespace>:<identity>`.
CacheKey(f, id) == <<"gh", f, id>>

Keys == {CacheKey(f, id) : f \in Fetchers, id \in Idents}

\* JSON bodies a successful response carries: `names` is the field the topics
\* endpoint answers with; isArray is Array.isArray(data.names).
Bodies == {[isArray |-> TRUE, names |-> <<"x">>], [isArray |-> FALSE, names |-> <<>>]}

\* The list of names `names` as a stored payload.
NamesList(names) == [isArray |-> TRUE, names |-> names]

\* How far one step of the clock moves Date.now(): half a gap where the queue's
\* timing is looked at, the TTLs (and half a gap) where the cache's is.
QueueTicks == {REQUEST_GAP_MS \div 2}
CacheTicks == {REQUEST_GAP_MS \div 2, GRID_CACHE_TTL, TOPIC_CACHE_TTL}

\* The fetchers fetchAllForGrid has in flight at once: the user's repositories,
\* each organization's, and the details hydration asks for.
GridFetchers == {"userrepos", "gridorg", "repodetail"}

\* No entry under a key: what getCache answers null for.
NoData == [isArray |-> FALSE, names |-> <<"none">>]
NoEntry == [ts |-> -1, data |-> NoData]

VARIABLES
  clock,     \* Date.now()
  nticks,    \* clock steps taken
  queue,     \* `queue`: ids of the tasks pushed and not yet shifted
  running,   \* `running`
  pumps,     \* live activations of pump(): [cur, pc, due]
  tasks,     \* every task submitted: [f, id, st, res, promise]
  starts,    \* ids of the tasks whose fn was called, in call order
  lastStart, \* Date.now() at the latest call of a task's fn (-1: none yet)
  lastGap,   \* time between the latest two such calls (-1: fewer than two)
  lastVia,   \* who made the latest call: "enqueue" (the pump was idle) or "timer"
  cache,     \* localStorage: key -> [ts, data] or NoEntry
  lastRead   \* the latest fetcher call: what it saw and what it did

VARIABLES
  GLOBAL_TOPICS_FETCH_BUDGET,  \* the deep /topics calls still allowed on this page
  cardNo,         \* cards fillOrgCards has begun
  cardPc,         \* "idle": between two cards; "topics": awaiting fetchRepoTopics
  cardCfg,        \* topics_deep_limit of the current card's configuration
  cardRepos,      \* filteredAll of the current card: [name, topics]
  need,           \* `need` of the running ensureTopicsFor: names of the repos to ask for
  needIx,         \* position of the for loop in `need`
  budgetAtStart,  \* the budget when the current card's ensureTopicsFor began
  cardAttempts,   \* fetchRepoTopics calls made for the current card
  attempts,       \* fetchRepoTopics calls made since the page loaded
  cardStatus,     \* what the latest finished card shows: "none", "list" or "error"
  cardLog,        \* per card begun: did fetchOrgRepos answer (ok), and what the card
                  \* shows: "loading", "list" or "error"
  bootPc          \* boot(): "cards" (in fillOrgCards), "grid" (fillOrgCards returned)
                  \* or "failed" (fillOrgCards rejected, and boot with it)

budgetVars == <<GLOBAL_TOPICS_FETCH_BUDGET, cardNo, cardPc, cardCfg, cardRepos, need, needIx,
                budgetAtStart, cardAttempts, attempts, cardStatus, cardLog, bootPc>>

VARIABLES
  gridPc,      \* where renderGrid is: "boot", "hydrating", "joining", "merged", "error"
  gridCfg,     \* EXCLUDE_FORKS, EXCLUDE_ARCHIVED and PINNED, read from the grid element
  manualFile,  \* the JSON array the manual source answered with (<<>>: none)
  manualBase,  \* `manualBase`: the normalized manual records
  hydrIx,      \* position of hydrateManualRepos in its list
  hydrated,    \* `out` of hydrateManualRepos
  hydrLog,     \* the detail fetches hydration awaited: [at, ok, fetched]
  gridSources, \* the user's and the organization's list fetch: the age and the
               \* payload of its cache entry, and whether its request failed
  gridFetched, \* `fetched`: the flattened lists of the user and the organizations
  gridRaw,     \* what fetchAllForGrid returns
  gridFiltered,\* `repos` of renderGrid as applyGridFilters returns it
  gridMode,    \* `sortMode` of renderGrid
  gridSorted,  \* the displayed repositories as the sort by mode left them
  gridShown    \* the records of the cards in grid.innerHTML, in order

gridVars == <<gridPc, gridCfg, manualFile, manualBase, hydrIx, hydrated, hydrLog, gridSources,
              gridFetched, gridRaw, gridFiltered, gridMode, gridSorted, gridShown>>

VARIABLES
  listOp,    \* the function last applied to a list: its name ("none": none yet)
  listArgs,  \* what it was applied with, besides the list
  listIn,    \* the list it was given
  listOut    \* the list it left

listVars == <<listOp, listArgs, listIn, listOut>>

VARIABLES
  themeStored,  \* localStorage "theme": "none" (no entry), "dark" or "light"
  themeDark,    \* the root element has the class "dark"
  themeIcon,    \* the icon shown: "sun", "moon", or "markup" (as the page's markup has it)
  osDark,       \* `(prefers-color-scheme: dark)` matches
  themePc,      \* theme.js: "load" (not run yet), "ready" (ran, listeners added) or
                \* "failed" (threw before adding its listeners)
  themeChose,   \* the user has clicked the toggle button, on this or an earlier visit
  themeLast,    \* the latest event: "none", "load", "os", "click" or "cleared"
  themeEvents   \* events so far

themeVars == <<themeStored, themeDark, themeIcon, osDark, themePc, themeChose, themeLast,
               themeEvents>>

fetchVars == <<clock, nticks, queue, running, pumps, tasks, starts, lastStart, lastGap,
               lastVia, cache, lastRead>>

vars == <<fetchVars, budgetVars, gridVars, listVars, themeVars>>

\* A fetcher call: the fetcher and identity, the age of the entry it found (-1:
\* none) and that entry's payload, how many tasks it enqueued, what it returned
\* at once (NoData: it awaits the dispatch).
NoRead == [f |-> "none", id |-> "none", age |-> -1, sawData |-> NoData,
           enqueued |-> 0, returned |-> NoData]

\* ------------------------------------------------------------------ cache

\* getCache(key): the entry, or null (NoEntry).
getCache(key) == cache[key]

\* A freshness test that still serves an entry exactly TTL old.
IsFreshInclusive(cached, ttl, now) == cached # NoEntry /\ now - cached.ts <= ttl

\* `cached && now() - cached.ts < TTL`
IsFresh(cached, ttl, now) == cached # NoEntry /\ now - cached.ts < ttl

\* setCache(key, data) at time now: the store after it; `stored` is FALSE when
\* localStorage.setItem throws, which the catch swallows.
setCache(store, key, data, now, stored) ==
  IF stored THEN [store EXCEPT ![key] = [ts |-> now, data |-> data]] ELSE store

\* What a fetcher stores and returns for a response body: fetchRepoTopics keeps
\* `data.names` when it is an array (an empty list otherwise), the others the body.
PayloadOf(f, body) ==
  IF f = "topics"
    THEN NamesList(IF body.isArray THEN body.names ELSE <<>>)
    ELSE body

\* A fetcher tail that drops the entry when the dispatch fails.
AfterDispatchInvalidating(store, f, id, ok, body, now, stored) ==
  IF ok THEN setCache(store, CacheKey(f, id), PayloadOf(f, body), now, stored)
        ELSE [store EXCEPT ![CacheKey(f, id)] = NoEntry]

\* The tail of a fetcher after `await fetchQueuedJSON(url)`: on success
\* setCache(key, payload); a rejection skips it.
AfterDispatch(store, f, id, ok, body, now, stored) ==
  IF ok THEN setCache(store, CacheKey(f, id), PayloadOf(f, body), now, stored) ELSE store

\* ------------------------------------------------------------------ queue

\* A pump() without its re-entrancy guard.
PumpNeverBusy == FALSE

\* `if (running) return;` in pump()
PumpBusy == running

\* A queue.pop() in place of the shift: the newest task first.
ShiftNewest(q) == [task |-> q[Len(q)], rest |-> SubSeq(q, 1, Len(q) - 1)]

\* `queue.shift()`: the task taken and the queue left.
Shift(q) == [task |-> Head(q), rest |-> Tail(q)]

\* A timer that waits for nothing.
TimerDueAtOnce(t) == t

\* `setTimeout(r, REQUEST_GAP_MS)` set at time t: when the timer is due.
TimerDue(t) == t + REQUEST_GAP_MS

\* A loop without the try/catch: a failing fn throws out of pump().
CatchesNothing(ok) == ok

\* The try/catch around `await fn()`: the loop goes on whatever fn's outcome.
Catches(ok) == TRUE

\* The promise of a task whose fn settled: resolve(val) or reject(e).
Settled(ok) == IF ok THEN "resolved" ELSE "rejected"

\* The call `fn()` of task t at the head of the loop body.
StartTask(ts, t, via) ==
  /\ tasks' = [ts EXCEPT ![t].st = "running"]
  /\ starts' = Append(starts, t)
  /\ lastStart' = clock
  /\ lastVia' = via
  /\ lastGap' = IF lastStart = -1 THEN -1 ELSE clock - lastStart

\* pump() called from enqueue with the queue q (the new task pushed).
PumpFrom(q, ts) ==
  IF PumpBusy
    THEN /\ queue' = q
         /\ tasks' = ts
         /\ UNCHANGED <<running, pumps, starts, lastStart, lastGap, lastVia>>
    ELSE LET s == Shift(q) IN
         /\ running' = TRUE
         /\ queue' = s.rest
         /\ StartTask(ts, s.task, "enqueue")
         /\ pumps' = pumps \cup {[cur |-> s.task, pc |-> "fn", due |-> 0]}

\* A fetcher (fetchOrgRepos, fetchRepoTopics, fetchRepoDetails, fetchUserRepos,
\* fetchOrgReposForGrid) called for identity id: the cache check, and on a miss
\* fetchQueuedJSON -> enqueue -> pump, up to the first await.
Fetch(f, id, cap) ==
  LET key == CacheKey(f, id)
      cached == getCache(key)
      fresh == IsFresh(cached, TTLOf(f), clock)
      t == Len(tasks) + 1
  IN
  /\ fresh \/ Len(tasks) < cap
  /\ IF fresh
       THEN UNCHANGED <<queue, running, pumps, tasks, starts, lastStart, lastGap, lastVia>>
       ELSE PumpFrom(Append(queue, t),
                     Append(tasks, [f |-> f, id |-> id, st |-> "queued", res |-> "none",
                                    promise |-> "pending"]))
  /\ lastRead' = [f |-> f, id |-> id,
                  age |-> IF cached = NoEntry THEN -1 ELSE clock - cached.ts,
                  sawData |-> cached.data,
                  enqueued |-> Len(tasks') - Len(tasks),
                  returned |-> IF fresh THEN cached.data ELSE NoData]
  /\ UNCHANGED <<clock, nticks, cache, budgetVars, gridVars, listVars, themeVars>>

\* The fn of the task a pump activation awaits settles (ok: the response was a
\* success carrying body; otherwise it threw). The loop resolves or rejects the
\* task's promise and goes to sleep for the gap; the fetcher that awaited the
\* promise stores the payload on success.
FnSettle(p, ok, body, stored) ==
  LET t == p.cur IN
  /\ p \in pumps /\ p.pc = "fn"
  /\ IF Catches(ok)
       THEN /\ tasks' = [tasks EXCEPT ![t].st = "settled",
                                      ![t].res = IF ok THEN "ok" ELSE "fail",
                                      ![t].promise = Settled(ok)]
            /\ pumps' = (pumps \ {p}) \cup {[cur |-> t, pc |-> "delay", due |-> TimerDue(clock)]}
            /\ cache' = AfterDispatch(cache, tasks[t].f, tasks[t].id, ok, body, clock, stored)
       ELSE \* the exception leaves pump(): nobody settles the promise
            /\ tasks' = [tasks EXCEPT ![t].st = "settled", ![t].res = "fail"]
            /\ pumps' = pumps \ {p}
            /\ cache' = cache
  /\ UNCHANGED <<clock, nticks, queue, running, starts, lastStart, lastGap, lastVia, lastRead,
                 budgetVars, gridVars, listVars, themeVars>>

\* The gap timer of a pump activation fires: the `while (queue.length)` test,
\* then either the next task's fn is called or the loop ends.
TimerFire(p) ==
  /\ p \in pumps /\ p.pc = "delay"
  /\ clock >= p.due
  /\ IF queue # <<>>
       THEN LET s == Shift(queue) IN
            /\ queue' = s.rest
            /\ StartTask(tasks, s.task, "timer")
            /\ pumps' = (pumps \ {p}) \cup {[cur |-> s.task, pc |-> "fn", due |-> 0]}
            /\ UNCHANGED running
       ELSE /\ running' = FALSE
            /\ pumps' = pumps \ {p}
            /\ UNCHANGED <<queue, tasks, starts, lastStart, lastGap, lastVia>>
  /\ UNCHANGED <<clock, nticks, cache, lastRead, budgetVars, gridVars, listVars, themeVars>>

\* Time passes.
Tick(d, maxTicks) ==
  /\ nticks < maxTicks
  /\ clock' = clock + d
  /\ nticks' = nticks + 1
  /\ UNCHANGED <<queue, running, pumps, tasks, starts, lastStart, lastGap, lastVia, cache,
                 lastRead, budgetVars, gridVars, listVars, themeVars>>

FetchInit ==
  /\ clock = 0
  /\ nticks = 0
  /\ queue = <<>>
  /\ running = FALSE
  /\ pumps = {}
  /\ tasks = <<>>
  /\ starts = <<>>
  /\ lastStart = -1
  /\ lastGap = -1
  /\ lastVia = "none"
  /\ cache = [k \in Keys |-> NoEntry]
  /\ lastRead = NoRead

\* ----------------------------------------------------- organization cards

Min(a, b) == IF a < b THEN a ELSE b
Max(a, b) == IF a > b THEN a ELSE b

\* A configuration's topics_deep_limit: absent, or a number.
NoLimit == [set |-> FALSE, v |-> 0]
Limit(n) == [set |-> TRUE, v |-> n]
DeepLimitConfigs == {NoLimit, Limit(0), Limit(2), Limit(DefaultDeepLimit)}

\* buildOrgCardEl: the destructuring default, then
\* `if (topics_deep_limit) art.setAttribute("data-topics-deep-limit", String(...))`.
\* The attribute's text is held as the number it spells.
DeepLimitAttr(cfg) ==
  LET v == IF cfg.set THEN cfg.v ELSE DefaultDeepLimit
  IN IF v # 0 THEN [set |-> TRUE, v |-> v] ELSE [set |-> FALSE, v |-> 0]

\* fillOrgCards: `parseInt(card.getAttribute("data-topics-deep-limit") || "24", 10)`
DeepLimitOf(attr) == IF attr.set THEN attr.v ELSE DefaultDeepLimit

\* The repository lists a card is filled from: n repositories named 1..n, none
\* with topics in the list response, or those at even positions with one.
RepoList(n, some) ==
  [i \in 1..n |-> [name |-> i,
                   topics |-> IF some /\ i % 2 = 0 THEN <<"t">> ELSE <<>>]]
RepoLists == {RepoList(n, some) : n \in 0..MaxRepos, some \in BOOLEAN}

\* The lists of names a successful /topics call answers with.
TopicLists == {<<"t">>, <<>>}

\* `!Array.isArray(r.topics) || r.topics.length === 0`
LacksTopics(r) == Len(r.topics) = 0

\* ensureTopicsFor: `need`, the names of the first
\* max(0, min(maxRequests, GLOBAL_TOPICS_FETCH_BUDGET)) repositories without topics.
Need(repos, maxRequests, budget) ==
  LET cand == SelectSeq(repos, LacksTopics)
      n == Max(0, Min(maxRequests, budget))
  IN [i \in 1..Min(n, Len(cand)) |-> cand[i].name]

\* The head of the for loop in ensureTopicsFor: there is a next repository, and
\* not `if (GLOBAL_TOPICS_FETCH_BUDGET <= 0) break`.
LoopGoesOn(ix, nd, budget) == ix <= Len(nd) /\ ~(budget <= 0)

\* A budget nothing is ever charged to.
ChargeNothing(budget, ok) == budget

\* A budget that only a successful fetch is charged to.
ChargeOnSuccess(budget, ok) == IF ok THEN budget - 1 ELSE budget

\* `GLOBAL_TOPICS_FETCH_BUDGET--` after the try/catch around the fetch.
Charge(budget, ok) == budget - 1

\* The for loop at position ix: call fetchRepoTopics and await it, or leave the
\* loop, which ends ensureTopicsFor and lets the card render its list.
LoopFrom(ix, nd, budget) ==
  IF LoopGoesOn(ix, nd, budget)
    THEN /\ cardPc' = "topics"
         /\ attempts' = attempts + 1
         /\ UNCHANGED cardStatus
    ELSE /\ cardPc' = "idle"
         /\ cardStatus' = "list"
         /\ UNCHANGED attempts

\* A loop over the cards without the try/catch: what fetchOrgRepos throws
\* leaves fillOrgCards.
CardCatchesNothing(ok) == ok

\* The try/catch around each card in fillOrgCards.
CardCatches(ok) == TRUE

\* fillOrgCards takes the next card, which shows "Loading...": fetchOrgRepos
\* answers (ok) with the list that the filters and the sort leave as repos, and
\* ensureTopicsFor starts; or it throws, and the catch makes the card show its
\* error.
CardBegin(cfg, repos, ok) ==
  /\ cardPc = "idle"
  /\ bootPc = "cards"
  /\ cardNo < MaxCards
  /\ cardNo' = cardNo + 1
  /\ cardCfg' = cfg
  /\ budgetAtStart' = GLOBAL_TOPICS_FETCH_BUDGET
  /\ IF ok
       THEN LET nd == Need(repos, DeepLimitOf(DeepLimitAttr(cfg)), GLOBAL_TOPICS_FETCH_BUDGET)
            IN /\ cardRepos' = repos
               /\ need' = nd
               /\ needIx' = 1
               /\ LoopFrom(1, nd, GLOBAL_TOPICS_FETCH_BUDGET)
               /\ cardAttempts' = attempts' - attempts
               /\ cardLog' = Append(cardLog, [ok |-> TRUE,
                                              shows |-> IF cardPc' = "idle" THEN "list"
                                                                           ELSE "loading"])
               /\ UNCHANGED bootPc
       ELSE /\ cardRepos' = <<>>
            /\ need' = <<>>
            /\ needIx' = 1
            /\ cardAttempts' = 0
            /\ cardPc' = "idle"
            /\ IF CardCatches(ok)
                 THEN /\ cardStatus' = "error"
                      /\ cardLog' = Append(cardLog, [ok |-> FALSE, shows |-> "error"])
                      /\ UNCHANGED bootPc
                 ELSE /\ cardLog' = Append(cardLog, [ok |-> FALSE, shows |-> "loading"])
                      /\ bootPc' = "failed"
                      /\ UNCHANGED cardStatus
            /\ UNCHANGED attempts
  /\ UNCHANGED <<GLOBAL_TOPICS_FETCH_BUDGET, fetchVars, gridVars, listVars, themeVars>>

\* The fetchRepoTopics call ensureTopicsFor awaits settles: on success r.topics
\* is the list it gave, a failure is swallowed; the budget is charged and the loop
\* goes to its next repository.
TopicsSettle(ok, names) ==
  /\ cardPc = "topics"
  /\ cardRepos' = IF ok THEN [cardRepos EXCEPT ![need[needIx]].topics = names]
                         ELSE cardRepos
  /\ GLOBAL_TOPICS_FETCH_BUDGET' = Charge(GLOBAL_TOPICS_FETCH_BUDGET, ok)
  /\ needIx' = needIx + 1
  /\ LoopFrom(needIx + 1, need, GLOBAL_TOPICS_FETCH_BUDGET')
  /\ cardAttempts' = cardAttempts + (attempts' - attempts)
  /\ cardLog' = IF cardPc' = "idle" THEN [cardLog EXCEPT ![cardNo].shows = "list"]
                                    ELSE cardLog
  /\ UNCHANGED <<cardNo, cardCfg, need, budgetAtStart, bootPc, fetchVars, gridVars, listVars, themeVars>>

\* The loop of fillOrgCards finds no further card: fillOrgCards returns, and
\* boot goes on to `await renderGrid()`.
CardsEnd ==
  /\ cardPc = "idle"
  /\ bootPc = "cards"
  /\ bootPc' = "grid"
  /\ UNCHANGED <<GLOBAL_TOPICS_FETCH_BUDGET, cardNo, cardPc, cardCfg, cardRepos, need, needIx,
                 budgetAtStart, cardAttempts, attempts, cardStatus, cardLog,
                 fetchVars, gridVars, listVars, themeVars>>

BudgetInit ==
  /\ GLOBAL_TOPICS_FETCH_BUDGET = TopicsBudgetCeiling
  /\ cardNo = 0
  /\ cardPc = "idle"
  /\ cardCfg = NoLimit
  /\ cardRepos = <<>>
  /\ need = <<>>
  /\ needIx = 1
  /\ budgetAtStart = TopicsBudgetCeiling
  /\ cardAttempts = 0
  /\ attempts = 0
  /\ cardStatus = "none"
  /\ cardLog = <<>>
  /\ bootPc = "cards"

\* ------------------------------------------------------------------- grid
\* A JavaScript object is a record whose domain is the set of its own
\* properties. A text with slashes in it (a full name, a URL path) is the
\* sequence of its parts: "a/b" is <<"a", "b">>, "a" is <<"a">>, "" is <<>> and
\* "/b" is <<"", "b">>. A timestamp is a number above 0, and 0 where the code
\* has null or nothing.

Has(o, f) == f \in DOMAIN o

\* `o.f || dflt` for a text property ("" is falsy).
TextOr(o, f, dflt) == IF Has(o, f) /\ o[f] # "" THEN o[f] ELSE dflt

\* `!!o.f`
Flag(o, f) == Has(o, f) /\ o[f]

JsNull == "<null>"

\* A URL text: whether `new URL()` parses it, and its pathname without the
\* leading and the trailing slash.
Url(path) == [valid |-> TRUE, path |-> path]
BadUrl == [valid |-> FALSE, path |-> <<>>]

\* What Number() makes of a value: a finite number, or NaN.
Num(n) == [fin |-> TRUE, v |-> n]
NaN == [fin |-> FALSE, v |-> 0]

\* `it.html_url || it.url`: the object holding it (none: the empty object).
UrlOf(it) ==
  IF Has(it, "html_url") THEN [u |-> it.html_url]
  ELSE IF Has(it, "url") THEN [u |-> it.url]
  ELSE <<>>

\* normalizeManualRepo: `full`, from full_name or else from the URL's path.
FullOf(it) ==
  LET given == IF Has(it, "full_name") THEN it.full_name ELSE <<>>
      u == UrlOf(it)
  IN IF given = <<>> /\ Has(u, "u") /\ u.u.valid THEN u.u.path ELSE given

\* `!full || !full.includes("/")`: the entry is dropped.
Unresolved(full) == Len(full) < 2

\* normalizeManualRepo(it) for an entry that resolves.
normalizeManualRepo(it) ==
  LET full == FullOf(it)
      u == UrlOf(it)
      stars == IF Has(it, "stars") THEN it.stars
               ELSE IF Has(it, "stargazers_count") THEN it.stargazers_count
               ELSE Num(0)
  IN [full_name |-> full,
      name |-> TextOr(it, "name", full[2]),
      html_url |-> IF Has(u, "u") THEN u.u ELSE Url(full),
      description |-> TextOr(it, "description", ""),
      language |-> TextOr(it, "language", ""),
      stargazers_count |-> IF stars.fin THEN stars.v ELSE 0,
      pushed_at |-> IF Has(it, "pushed_at") THEN it.pushed_at ELSE 0,
      archived |-> Flag(it, "archived"),
      fork |-> Flag(it, "fork"),
      private |-> Flag(it, "private"),
      topics |-> IF Has(it, "topics") THEN it.topics ELSE <<>>,
      _pinned |-> Flag(it, "pinned")]

\* An element of the file that is null, and one that is a number or a text
\* (every property of it reads undefined).
NullElement == [null |-> TRUE]
PrimitiveElement == [primitive |-> TRUE]

\* A full_name, and a name, that is neither a text nor falsy (a number, an
\* object): it has no trim().
NonText == <<"<not a text>">>
NonTextName == "<not a text>"

\* normalizeManualRepo throws a TypeError: `it.full_name` of null,
\* `(it.full_name || "").trim()` of a non-text, or, once the identity resolved,
\* `(it.name || ...).trim()` of a non-text.
NormalizeThrows(it) ==
  \/ Has(it, "null")
  \/ Has(it, "full_name") /\ it.full_name = NonText
  \/ /\ ~Unresolved(FullOf(it))
     /\ Has(it, "name") /\ it.name = NonTextName

\* loadManualRepos: `data.map(normalizeManualRepo).filter(Boolean)`
RECURSIVE NormalizeAll(_)
NormalizeAll(data) ==
  IF data = <<>> THEN <<>>
  ELSE LET rest == NormalizeAll(Tail(data))
       IN IF Unresolved(FullOf(Head(data))) THEN rest
          ELSE <<normalizeManualRepo(Head(data))>> \o rest

\* `await loadManualRepos(MANUAL_SRC).catch(() => [])` in fetchAllForGrid: the
\* file did not load (~ok), or the map threw on one of its elements, and the
\* list is empty; otherwise the normalized entries.
LoadManual(ok, data) ==
  IF ~ok \/ (\E i \in 1..Len(data) : NormalizeThrows(data[i])) THEN <<>>
  ELSE NormalizeAll(data)

\* hydrateManualRepos: `const [owner, name] = m.full_name.split("/")`, and
\* `!owner || !name`.
NoOwnerOrName(m) ==
  \/ Len(m.full_name) < 2
  \/ m.full_name[1] = ""
  \/ m.full_name[2] = ""

\* hydrateManualRepos: fetchedNorm, the fetched details over the manual record.
FetchedNorm(fetched, m) ==
  [full_name |-> IF Has(fetched, "full_name") /\ fetched.full_name # <<>>
                   THEN fetched.full_name ELSE m.full_name,
   name |-> TextOr(fetched, "name", m.name),
   html_url |-> IF Has(fetched, "html_url") THEN fetched.html_url ELSE m.html_url,
   description |-> IF Has(fetched, "description") /\ fetched.description # JsNull
                     THEN fetched.description ELSE "",
   language |-> IF Has(fetched, "language") /\ fetched.language # JsNull
                  THEN fetched.language ELSE "",
   stargazers_count |-> IF Has(fetched, "stargazers_count")
                          THEN fetched.stargazers_count ELSE 0,
   pushed_at |-> IF Has(fetched, "pushed_at") /\ fetched.pushed_at # 0
                   THEN fetched.pushed_at ELSE m.pushed_at,
   archived |-> Flag(fetched, "archived"),
   fork |-> Flag(fetched, "fork"),
   private |-> Flag(fetched, "private"),
   topics |-> IF Has(fetched, "topics") THEN fetched.topics ELSE <<>>]

\* `{ ...a, ...b }`: b's properties over a's.
Spread(a, b) == b @@ a

\* A merge that always takes the fetched topics.
FetchedTopicsOnly(m, fn) == fn.topics

\* `Array.isArray(m.topics) && m.topics.length ? m.topics : fetchedNorm.topics`
MergedTopics(m, fn) == IF m.topics # <<>> THEN m.topics ELSE fn.topics

\* hydrateManualRepos: `merged`. m.stargazers_count is a number here, finite
\* since normalizeManualRepo made it so.
Merged(fetched, m) ==
  LET fn == FetchedNorm(fetched, m)
  IN Spread(Spread(fn, m),
            [stargazers_count |-> m.stargazers_count,
             topics |-> MergedTopics(m, fn),
             pushed_at |-> IF m.pushed_at # 0 THEN m.pushed_at ELSE fn.pushed_at])

\* A catch that loses the pinned mark of the record it falls back to.
FallbackUnpinned(m) == [m EXCEPT !._pinned = FALSE]

\* `out.push(m)` in the catch of hydrateManualRepos: the manual record as it is.
Fallback(m) == m

\* A Map as the sequence of its [k, v] entries in insertion order.
MapHas(mp, k) == \E i \in 1..Len(mp) : mp[i].k = k
MapGet(mp, k) ==
  IF MapHas(mp, k) THEN mp[CHOOSE i \in 1..Len(mp) : mp[i].k = k].v ELSE <<>>
MapSet(mp, k, v) ==
  IF MapHas(mp, k)
    THEN [i \in 1..Len(mp) |-> IF mp[i].k = k THEN [k |-> k, v |-> v] ELSE mp[i]]
    ELSE Append(mp, [k |-> k, v |-> v])

\* `new Map(fetched.map((r) => [r.full_name, r]))`
RECURSIVE MapOf(_, _)
MapOf(mp, fetched) ==
  IF fetched = <<>> THEN mp
  ELSE MapOf(MapSet(mp, Head(fetched).full_name, Head(fetched)), Tail(fetched))

\* A merge that lets the record already in the map win.
KeepExisting(existing, m) == Spread(m, existing)

\* `{ ...map.get(m.full_name), ...m }`
OverExisting(existing, m) == Spread(existing, m)

\* `for (const m of manualHydrated) map.set(m.full_name, {...})`
RECURSIVE SetManual(_, _)
SetManual(mp, manual) ==
  IF manual = <<>> THEN mp
  ELSE LET m == Head(manual)
       IN SetManual(MapSet(mp, m.full_name, OverExisting(MapGet(mp, m.full_name), m)),
                    Tail(manual))

\* `Array.from(map.values())`
MapValues(mp) == [i \in 1..Len(mp) |-> mp[i].v]

\* fetchAllForGrid: the de-duplication of the fetched and the manual records.
MergeForGrid(fetched, manualHydrated) ==
  MapValues(SetManual(MapOf(<<>>, fetched), manualHydrated))

\* ----------------------------------------------------------- filters, sorts

\* The names the repositories here carry and the topics they have, in the
\* order of the locale's collation, and a.localeCompare(b) as the difference of
\* their places.
NameOrder == <<"a", "b", "c", "d", "f", "Moved", "p", "t", "x", "y", "z">>
Collate(name) == CHOOSE i \in 1..Len(NameOrder) : NameOrder[i] = name
localeCompare(a, b) == Collate(a) - Collate(b)

\* s.toLowerCase()
ToLower(s) == IF s = "Moved" THEN "moved" ELSE IF s = "X" THEN "x" ELSE s

\* A comparator that puts the fewest stars first.
StarsAscendingCmp(a, b) ==
  IF a.stargazers_count - b.stargazers_count # 0
    THEN a.stargazers_count - b.stargazers_count
    ELSE localeCompare(a.name, b.name)

\* A comparator by stars that leaves ties as they stand.
StarsOnlyCmp(a, b) == b.stargazers_count - a.stargazers_count

\* `b.stargazers_count - a.stargazers_count || a.name.localeCompare(b.name)`
StarsCmp(a, b) ==
  IF b.stargazers_count - a.stargazers_count # 0
    THEN b.stargazers_count - a.stargazers_count
    ELSE localeCompare(a.name, b.name)

\* `a.name.localeCompare(b.name)`
NameCmp(a, b) == localeCompare(a.name, b.name)

\* `new Date(b.pushed_at) - new Date(a.pushed_at)`; a time is held as the
\* number of its Date, null as 0.
PushedCmp(a, b) == b.pushed_at - a.pushed_at

\* Grid filters that let private repositories through.
GridFiltersKeepingPrivate(raw, exForks, exArch) ==
  LET noFork == IF exForks THEN SelectSeq(raw, LAMBDA r : ~Flag(r, "fork")) ELSE raw
  IN IF exArch THEN SelectSeq(noFork, LAMBDA r : ~Flag(r, "archived")) ELSE noFork

\* applyGridFilters(raw) under EXCLUDE_FORKS and EXCLUDE_ARCHIVED.
applyGridFilters(raw, exForks, exArch) ==
  LET noPriv == SelectSeq(raw, LAMBDA r : ~Flag(r, "private"))
      noFork == IF exForks THEN SelectSeq(noPriv, LAMBDA r : ~Flag(r, "fork")) ELSE noPriv
  IN IF exArch THEN SelectSeq(noFork, LAMBDA r : ~Flag(r, "archived")) ELSE noFork

\* exclude_forks and exclude_archived of a card's configuration: absent, or a
\* boolean.
NoFlag == [set |-> FALSE, v |-> FALSE]
FlagSet(b) == [set |-> TRUE, v |-> b]
CardFlagConfigs == {NoFlag, FlagSet(TRUE), FlagSet(FALSE)}

\* buildOrgCardEl: `exclude_forks = true` in the destructuring, then
\* `art.setAttribute("data-exclude-forks", String(!!exclude_forks))`.
ExcludeAttr(flag) == IF (IF flag.set THEN flag.v ELSE TRUE) THEN "true" ELSE "false"

\* applyCardFilters: `(cardEl.getAttribute(...) ?? "true") !== "false"`
ExclusionOn(attr) == (IF attr = JsNull THEN "true" ELSE attr) # "false"

\* applyCardFilters(repos, cardEl) for a card with these two attributes.
applyCardFilters(repos, forksAttr, archAttr) ==
  LET out == SelectSeq(repos, LAMBDA r : ~Flag(r, "private"))
      noFork == IF ExclusionOn(forksAttr)
                  THEN SelectSeq(out, LAMBDA r : ~Flag(r, "fork")) ELSE out
  IN IF ExclusionOn(archAttr)
       THEN SelectSeq(noFork, LAMBDA r : ~Flag(r, "archived")) ELSE noFork

\* PINNED: the names and the full names of data-pin, lower-cased.
NoPins == [names |-> {}, fulls |-> {}]

\* isPinnedGrid(r)
isPinnedGrid(r, pinned) ==
  \/ Flag(r, "_pinned")
  \/ ToLower(r.name) \in pinned.names
  \/ [i \in 1..Len(r.full_name) |-> ToLower(r.full_name[i])] \in pinned.fulls

\* A comparator that puts the pinned records last.
PinnedLastCmp(a, b, pinned) ==
  (IF isPinnedGrid(a, pinned) THEN 1 ELSE 0) - (IF isPinnedGrid(b, pinned) THEN 1 ELSE 0)

\* `(a, b) => isPinnedGrid(b) - isPinnedGrid(a)`
PinnedCmp(a, b, pinned) ==
  (IF isPinnedGrid(b, pinned) THEN 1 ELSE 0) - (IF isPinnedGrid(a, pinned) THEN 1 ELSE 0)

\* A comparator of topic entries by their counts that leaves ties as they stand.
CountOnlyCmp(a, b) == b.v - a.v

\* `(a, b) => b[1] - a[1] || a[0].localeCompare(b[0])` on [topic, count] entries
CountCmp(a, b) == IF b.v - a.v # 0 THEN b.v - a.v ELSE localeCompare(a.k, b.k)

\* The comparator a sort is called with: by "stars", "name", "pushed", by
\* "count" (topic entries), or by "pinned" under the page's PINNED.
By(k) == [by |-> k, pinned |-> NoPins]
ByPinned(pinned) == [by |-> "pinned", pinned |-> pinned]
Compare(how, a, b) ==
  CASE how.by = "stars"  -> StarsCmp(a, b)
    [] how.by = "name"   -> NameCmp(a, b)
    [] how.by = "pushed" -> PushedCmp(a, b)
    [] how.by = "count"  -> CountCmp(a, b)
    [] how.by = "pinned" -> PinnedCmp(a, b, how.pinned)

\* Array.prototype.sort with a comparator, which is stable: an element goes
\* after the elements that compare before it and after the equal ones that
\* stood before it. (Every comparator here orders the records it is given
\* consistently: the stars and the times compared are finite numbers.)
ArraySort(list, how) ==
  LET n == Len(list)
      Ahead(i) == {j \in 1..n : \/ Compare(how, list[j], list[i]) < 0
                                \/ Compare(how, list[j], list[i]) = 0 /\ j < i}
  IN [k \in 1..n |-> list[CHOOSE i \in 1..n : Cardinality(Ahead(i)) = k - 1]]

\* sortRepos(repos, mode): "stars", and every other mode by the last push.
sortRepos(repos, mode) ==
  IF mode = "stars" THEN ArraySort(repos, By("stars")) ELSE ArraySort(repos, By("pushed"))

\* sortForCard(repos, mode)
sortForCard(repos, mode) ==
  IF mode = "stars" THEN ArraySort(repos, By("stars"))
  ELSE IF mode = "name" THEN ArraySort(repos, By("name"))
  ELSE ArraySort(repos, By("pushed"))

\* renderGrid after fetchAllForGrid returned raw: the filters, the sort by
\* mode, and the pinned records moved to the front.
RenderOrder(filtered, mode, pinned) ==
  ArraySort(sortRepos(filtered, mode), ByPinned(pinned))

\* `Array.isArray(r.topics) ? r.topics : []`
TopicsOf(r) == IF Has(r, "topics") THEN r.topics ELSE <<>>

\* The inner loop of collectTopicsAcross over one repository's topics:
\* `k = String(t).toLowerCase(); map.set(k, (map.get(k) || 0) + 1)`.
RECURSIVE CountTopics(_, _)
CountTopics(mp, topics) ==
  IF topics = <<>> THEN mp
  ELSE LET k == ToLower(Head(topics))
           n == IF MapHas(mp, k) THEN MapGet(mp, k) ELSE 0
       IN CountTopics(MapSet(mp, k, n + 1), Tail(topics))

\* The outer loop of collectTopicsAcross.
RECURSIVE CountAcross(_, _)
CountAcross(mp, repos) ==
  IF repos = <<>> THEN mp
  ELSE CountAcross(CountTopics(mp, TopicsOf(Head(repos))), Tail(repos))

\* collectTopicsAcross(repos): the map's entries, sorted.
collectTopicsAcross(repos) == ArraySort(CountAcross(<<>>, repos), By("count"))

\* A configuration's topics_max, absent or a number, as buildOrgCardEl puts it
\* on the card: the destructuring default 0, then
\* `if (topics_max) art.setAttribute("data-topics-max", String(topics_max))`.
TopicsMaxConfigs == {NoLimit, Limit(-1), Limit(0), Limit(1), Limit(2)}
TopicsMaxAttr(cfg) ==
  LET v == IF cfg.set THEN cfg.v ELSE 0
  IN IF v # 0 THEN [set |-> TRUE, v |-> v] ELSE [set |-> FALSE, v |-> 0]

\* fillOrgCards: `parseInt(card.getAttribute("data-topics-max") || "0", 10)`
TopicsMaxOf(attr) == IF attr.set THEN attr.v ELSE 0

\* topicsChipsHTML(topicPairs, max): the entries the chips are made of (none
\* gives the empty text): `max > 0 ? topicPairs.slice(0, max) : topicPairs`.
topicsChips(topicPairs, max) ==
  IF max > 0 THEN SubSeq(topicPairs, 1, Min(max, Len(topicPairs))) ELSE topicPairs

\* What the API knows of a repository, in a list or as its details.
ApiRepo(full, stars) ==
  [full_name |-> full, name |-> full[2], html_url |-> Url(full),
   description |-> "fetched text", language |-> "fetched lang",
   stargazers_count |-> stars, pushed_at |-> 10 - stars,
   archived |-> FALSE, fork |-> FALSE, private |-> FALSE, topics |-> <<"x", "y">>]

\* The same with the texts null and no topics in the answer.
ApiRepoBare(full, stars) ==
  [full_name |-> full, name |-> full[2], html_url |-> Url(full),
   description |-> JsNull, language |-> JsNull,
   stargazers_count |-> stars, pushed_at |-> 10 - stars,
   archived |-> FALSE, fork |-> FALSE, private |-> FALSE]

\* The same of a repository that was renamed, archived and is a fork: the API
\* answers for the old name with the new one.
ApiRepoMoved(full, stars) ==
  [ApiRepo(full, stars) EXCEPT !.full_name = <<full[1], "Moved">>, !.name = "Moved",
                               !.html_url = Url(<<full[1], "Moved">>),
                               !.archived = TRUE, !.fork = TRUE]

\* The answer of GET /repos/<owner>/<name>.
DetailKinds == {"full", "bare", "moved"}
DetailsOf(owner, name, kind) ==
  CASE kind = "full"  -> ApiRepo(<<owner, name>>, 5)
    [] kind = "bare"  -> ApiRepoBare(<<owner, name>>, 5)
    [] kind = "moved" -> ApiRepoMoved(<<owner, name>>, 5)

\* The answers of the user's and of an organization's repository list.
UserLists == {<<>>, <<ApiRepo(<<"a", "b">>, 5)>>,
              <<ApiRepo(<<"a", "b">>, 5), [ApiRepo(<<"c", "d">>, 7) EXCEPT !.private = TRUE]>>}
OrgLists == {<<>>, <<ApiRepo(<<"a", "b">>, 6), [ApiRepo(<<"o", "p">>, 6) EXCEPT !.fork = TRUE]>>}

\* A list fetch of the grid (fetchUserRepos, fetchOrgReposForGrid): the age of
\* the cache entry under its key (-1: there is none) and that entry's payload,
\* and what the request, if one is made, answers: ok with list, or a failure.
FreshAge == GRID_CACHE_TTL - 1
UnfreshAges == {-1, GRID_CACHE_TTL}
SourceCases(lists, payload) ==
  {[age |-> FreshAge, payload |-> payload, ok |-> TRUE, list |-> <<>>]}
    \cup {[age |-> a, payload |-> IF a = -1 THEN <<>> ELSE payload, ok |-> TRUE, list |-> l] :
            a \in UnfreshAges, l \in lists}
    \cup {[age |-> a, payload |-> IF a = -1 THEN <<>> ELSE payload, ok |-> FALSE, list |-> <<>>] :
            a \in UnfreshAges}

\* The payloads the cache holds of an earlier load.
UserPayload == <<ApiRepo(<<"a", "b">>, 4)>>
OrgPayload == <<ApiRepo(<<"o", "p">>, 2)>>

\* A source without a cache entry whose request answers.
PlainCases(lists) == {[age |-> -1, payload |-> <<>>, ok |-> TRUE, list |-> l] : l \in lists}

\* `cached && now() - cached.ts < GRID_CACHE_TTL`
SourceFresh(src) == src.age # -1 /\ src.age < GRID_CACHE_TTL

\* fetchUserRepos / fetchOrgReposForGrid: the cached payload when it is fresh,
\* otherwise what `await fetchQueuedJSON(url)` gives: the list, or it throws.
FetchSource(src) ==
  IF SourceFresh(src) THEN [thrown |-> FALSE, data |-> src.payload]
  ELSE IF src.ok THEN [thrown |-> FALSE, data |-> src.list]
  ELSE [thrown |-> TRUE, data |-> <<>>]

\* Entries of the manual repositories file.
RawEntries ==
  { [full_name |-> <<"a", "b">>, stars |-> Num(9)],
    [full_name |-> <<"a", "b">>, stargazers_count |-> Num(3), description |-> "manual text",
     archived |-> TRUE],
    [html_url |-> Url(<<"c", "d">>), topics |-> <<"z">>, pinned |-> TRUE],
    [full_name |-> <<"e", "f">>, stars |-> NaN, pushed_at |-> 3],
    [name |-> "no identity"],
    [url |-> BadUrl],
    [full_name |-> <<"", "b">>],
    [url |-> Url(<<"c", "d", "tree", "main">>)],
    NullElement,
    PrimitiveElement,
    [full_name |-> NonText, stars |-> Num(1)],
    [full_name |-> <<"e", "f">>, name |-> NonTextName] }

RECURSIVE SeqsUpTo(_, _)
SeqsUpTo(S, n) ==
  IF n = 0 THEN {<<>>}
  ELSE LET shorter == SeqsUpTo(S, n - 1)
       IN shorter \cup {Append(q, x) : q \in shorter, x \in S}

ManualFiles == SeqsUpTo(RawEntries, MaxManual)

\* The files the rendering is looked at with: entries that resolve.
RenderEntries ==
  { [full_name |-> <<"a", "b">>, stars |-> Num(9)],
    [full_name |-> <<"e", "f">>, stargazers_count |-> Num(3), archived |-> TRUE],
    [html_url |-> Url(<<"c", "d">>), topics |-> <<"z">>, pinned |-> TRUE] }
RenderFiles == SeqsUpTo(RenderEntries, MaxManual)

\* The grid element's data-exclude-forks, data-exclude-archived and data-pin.
PinLists == {NoPins, [names |-> {"moved"}, fulls |-> {<<"a", "b">>}]}
GridConfigs ==
  {[exForks |-> f, exArch |-> a, pinned |-> p] : f, a \in BOOLEAN, p \in PinLists}
DefaultGridConfig == [exForks |-> TRUE, exArch |-> TRUE, pinned |-> NoPins]

\* The sort modes renderGrid is called with.
SortModes == {"stars", "name", "pushed"}

\* hydrateManualRepos from position ix with `out` so far: records without an
\* owner or a name are pushed as they are, up to the first record to fetch
\* details for (the await) or the end of the list.
RECURSIVE HydrateFrom(_, _, _)
HydrateFrom(list, ix, out) ==
  IF ix > Len(list) THEN [ix |-> ix, out |-> out]
  ELSE IF NoOwnerOrName(list[ix]) THEN HydrateFrom(list, ix + 1, Append(out, list[ix]))
  ELSE [ix |-> ix, out |-> out]

HydrateGoesOn(list, h) ==
  /\ hydrIx' = h.ix
  /\ hydrated' = h.out
  /\ gridPc' = IF h.ix > Len(list) THEN "joining" ELSE "hydrating"

\* renderGrid -> fetchAllForGrid: the fetches of the user's and the
\* organizations' lists are started, loadManualRepos answers (ok: with the file's
\* entries; otherwise its catch gives []), and hydrateManualRepos runs to its
\* first await. The file is one of files, and what the script read from the
\* grid element one of cfgs.
GridLoadManual(files, cfgs) ==
  /\ gridPc = "boot"
  /\ \E ok \in BOOLEAN, data \in files, cfg \in cfgs :
       /\ gridCfg' = cfg
       /\ manualFile' = IF ok THEN data ELSE <<>>
       /\ hydrLog' = <<>>
       /\ LET base == LoadManual(ok, data)
          IN /\ manualBase' = base
             /\ HydrateGoesOn(base, HydrateFrom(base, 1, <<>>))
  /\ UNCHANGED <<gridSources, gridFetched, gridRaw, gridFiltered, gridMode, gridSorted,
                 gridShown,
                 fetchVars, budgetVars, listVars, themeVars>>

\* The fetchRepoDetails call hydrateManualRepos awaits settles (kind: what the
\* API answers with): the merged record on success, the manual record as it is
\* on failure; then on to the next await.
GridHydrate(ok, kind) ==
  /\ gridPc = "hydrating"
  /\ LET m == manualBase[hydrIx]
         fetched == DetailsOf(m.full_name[1], m.full_name[2], kind)
         rec == IF ok THEN Merged(fetched, m) ELSE Fallback(m)
     IN /\ HydrateGoesOn(manualBase,
                         HydrateFrom(manualBase, hydrIx + 1, Append(hydrated, rec)))
        /\ hydrLog' = Append(hydrLog, [at |-> Len(hydrated) + 1, ok |-> ok,
                                       fetched |-> IF ok THEN fetched ELSE <<>>])
  /\ UNCHANGED <<gridCfg, manualFile, manualBase, gridSources, gridFetched, gridRaw,
                 gridFiltered, gridMode, gridSorted, gridShown,
                 fetchVars, budgetVars, listVars, themeVars>>

\* `await Promise.all(parts)` settles. With every list there, fetchAllForGrid
\* merges and returns, and renderGrid filters, sorts by mode, moves the pinned
\* records to the front and fills the grid; with a list fetch rejected,
\* fetchAllForGrid throws and the catch of renderGrid empties the grid.
GridJoin(user, org, mode) ==
  /\ gridPc = "joining"
  /\ LET u == FetchSource(user)
         o == FetchSource(org)
         fetched == u.data \o o.data
         raw == MergeForGrid(fetched, hydrated)
         filtered == applyGridFilters(raw, gridCfg.exForks, gridCfg.exArch)
     IN /\ gridSources' = <<[age |-> user.age, payload |-> user.payload, failed |-> u.thrown],
                            [age |-> org.age, payload |-> org.payload, failed |-> o.thrown]>>
        /\ IF ~u.thrown /\ ~o.thrown
             THEN /\ gridFetched' = fetched
                  /\ gridRaw' = raw
                  /\ gridFiltered' = filtered
                  /\ gridMode' = mode
                  /\ gridSorted' = sortRepos(filtered, mode)
                  /\ gridShown' = RenderOrder(filtered, mode, gridCfg.pinned)
                  /\ gridPc' = "merged"
             ELSE /\ gridPc' = "error"
                  /\ gridShown' = <<>>
                  /\ UNCHANGED <<gridFetched, gridRaw, gridFiltered, gridMode, gridSorted>>
  /\ UNCHANGED <<gridCfg, manualFile, manualBase, hydrIx, hydrated, hydrLog,
                 fetchVars, budgetVars, listVars, themeVars>>

GridInit ==
  /\ gridPc = "boot"
  /\ gridCfg = DefaultGridConfig
  /\ manualFile = <<>>
  /\ manualBase = <<>>
  /\ hydrIx = 1
  /\ hydrated = <<>>
  /\ hydrLog = <<>>
  /\ gridSources = <<>>
  /\ gridFetched = <<>>
  /\ gridRaw = <<>>
  /\ gridFiltered = <<>>
  /\ gridMode = "pushed"
  /\ gridSorted = <<>>
  /\ gridShown = <<>>

\* ------------------------------------------------- the list functions alone

\* A repository as the filters and the sorts read it.
Repo(name, stars, pushed, flag) ==
  [name |-> name, stargazers_count |-> stars, pushed_at |-> pushed,
   private |-> flag = "private", fork |-> flag = "fork", archived |-> flag = "archived"]

ListRecords ==
  { Repo("b", 5, 1, "none"), Repo("d", 5, 3, "fork"), Repo("c", 9, 2, "archived"),
    Repo("f", 5, 3, "private"), Repo("b", 9, 4, "none"), Repo("a", 5, 0, "none") }

\* The lists a filter or a sort is given.
ListInputs == SeqsUpTo(ListRecords, MaxList)

\* Filtered repositories of a card after ensureTopicsFor: with topics in any
\* case, with none, and without the array.
TopicRecords ==
  { [name |-> "b", topics |-> <<"y", "t">>], [name |-> "d", topics |-> <<"X">>],
    [name |-> "f", topics |-> <<"x", "t">>], [name |-> "p", topics |-> <<>>],
    [name |-> "a"] }
TopicInputs == SeqsUpTo(TopicRecords, MaxList)

NoArgs == [mode |-> "none", forks |-> NoFlag, arch |-> NoFlag, max |-> NoLimit]

\* applyGridFilters(raw) on a page whose grid excludes forks (exForks) and
\* archived repositories (exArch).
ApplyGridFilters(lists) ==
  /\ listOp = "none"
  /\ \E raw \in lists, exForks, exArch \in BOOLEAN :
       /\ listOp' = "applyGridFilters"
       /\ listArgs' = [NoArgs EXCEPT !.forks = FlagSet(exForks), !.arch = FlagSet(exArch)]
       /\ listIn' = raw
       /\ listOut' = applyGridFilters(raw, exForks, exArch)
  /\ UNCHANGED <<fetchVars, budgetVars, gridVars, themeVars>>

\* applyCardFilters(repos, cardEl) for the card buildOrgCardEl makes of a
\* configuration with these exclude_forks and exclude_archived.
ApplyCardFilters(lists) ==
  /\ listOp = "none"
  /\ \E repos \in lists, forks, arch \in CardFlagConfigs :
       /\ listOp' = "applyCardFilters"
       /\ listArgs' = [NoArgs EXCEPT !.forks = forks, !.arch = arch]
       /\ listIn' = repos
       /\ listOut' = applyCardFilters(repos, ExcludeAttr(forks), ExcludeAttr(arch))
  /\ UNCHANGED <<fetchVars, budgetVars, gridVars, themeVars>>

\* applyCardFilters for a card of the page's own markup without the two
\* attributes.
ApplyCardFiltersBare(lists) ==
  /\ listOp = "none"
  /\ \E repos \in lists :
       /\ listOp' = "applyCardFilters"
       /\ listArgs' = [NoArgs EXCEPT !.mode = "no attribute"]
       /\ listIn' = repos
       /\ listOut' = applyCardFilters(repos, JsNull, JsNull)
  /\ UNCHANGED <<fetchVars, budgetVars, gridVars, themeVars>>

\* sortRepos(repos, mode)
SortRepos(lists) ==
  /\ listOp = "none"
  /\ \E repos \in lists, mode \in SortModes :
       /\ listOp' = "sortRepos"
       /\ listArgs' = [NoArgs EXCEPT !.mode = mode]
       /\ listIn' = repos
       /\ listOut' = sortRepos(repos, mode)
  /\ UNCHANGED <<fetchVars, budgetVars, gridVars, themeVars>>

\* sortForCard(repos, mode)
SortForCard(lists) ==
  /\ listOp = "none"
  /\ \E repos \in lists, mode \in SortModes :
       /\ listOp' = "sortForCard"
       /\ listArgs' = [NoArgs EXCEPT !.mode = mode]
       /\ listIn' = repos
       /\ listOut' = sortForCard(repos, mode)
  /\ UNCHANGED <<fetchVars, budgetVars, gridVars, themeVars>>

\* fillOrgCards after ensureTopicsFor, for the card buildOrgCardEl makes of a
\* configuration with this topics_max: collectTopicsAcross(filteredAll), then
\* topicsChipsHTML(topicPairs, topicsMax) into the card's chips.
CardTopics(lists) ==
  /\ listOp = "none"
  /\ \E filteredAll \in lists, cfg \in TopicsMaxConfigs :
       LET topicPairs == collectTopicsAcross(filteredAll)
       IN /\ listOp' = "cardTopics"
          /\ listArgs' = [NoArgs EXCEPT !.max = cfg]
          /\ listIn' = filteredAll
          /\ listOut' = [table |-> topicPairs,
                         chips |-> topicsChips(topicPairs, TopicsMaxOf(TopicsMaxAttr(cfg)))]
  /\ UNCHANGED <<fetchVars, budgetVars, gridVars, themeVars>>

ListInit ==
  /\ listOp = "none"
  /\ listArgs = NoArgs
  /\ listIn = <<>>
  /\ listOut = <<>>

\* ------------------------------------------------------------- the theme

\* setTheme(mode) up to updateIcon(): the class of the root element and the
\* entry written to localStorage.
setTheme(mode) ==
  IF mode = "dark" THEN [dark |-> TRUE, stored |-> "dark"]
                   ELSE [dark |-> FALSE, stored |-> "light"]

\* `if (saved) setTheme(saved) else setTheme(prefersDark ? "dark" : "light")`
InitMode(saved, prefersDark) ==
  IF saved # "none" THEN setTheme(saved)
  ELSE setTheme(IF prefersDark THEN "dark" ELSE "light")

\* updateIcon()
IconFor(dark) == IF dark THEN "sun" ELSE "moon"

\* theme.js runs on a page (icons: the page has the two icon elements): it
\* initializes from the saved entry or the OS, and adds its listeners; without
\* the icons updateIcon throws out of the first setTheme, after the class and
\* the entry were written, and no listener is added.
ThemeLoad(icons) ==
  /\ themePc = "load"
  /\ themeEvents < MaxThemeEvents
  /\ LET t == InitMode(themeStored, osDark)
     IN /\ themeDark' = t.dark
        /\ themeStored' = t.stored
        /\ themeIcon' = IF icons THEN IconFor(t.dark) ELSE themeIcon
        /\ themePc' = IF icons THEN "ready" ELSE "failed"
  /\ themeLast' = "load"
  /\ themeEvents' = themeEvents + 1
  /\ UNCHANGED <<osDark, themeChose, fetchVars, budgetVars, gridVars, listVars>>

\* The OS colour scheme changes to matches: where the listener was added it
\* runs `if (!localStorage.getItem(STORAGE_KEY)) setTheme(e.matches ? "dark" : "light")`.
ThemeOsChange(matches) ==
  /\ matches # osDark
  /\ themeEvents < MaxThemeEvents
  /\ osDark' = matches
  /\ IF themePc = "ready" /\ themeStored = "none"
       THEN LET t == setTheme(IF matches THEN "dark" ELSE "light")
            IN /\ themeDark' = t.dark
               /\ themeStored' = t.stored
               /\ themeIcon' = IconFor(t.dark)
       ELSE UNCHANGED <<themeDark, themeStored, themeIcon>>
  /\ themeLast' = "os"
  /\ themeEvents' = themeEvents + 1
  /\ UNCHANGED <<themePc, themeChose, fetchVars, budgetVars, gridVars, listVars>>

\* A click on the toggle button: `setTheme(isDark ? "light" : "dark")`.
ThemeClick ==
  /\ themePc = "ready"
  /\ themeEvents < MaxThemeEvents
  /\ LET t == setTheme(IF themeDark THEN "light" ELSE "dark")
     IN /\ themeDark' = t.dark
        /\ themeStored' = t.stored
        /\ themeIcon' = IconFor(t.dark)
  /\ themeChose' = TRUE
  /\ themeLast' = "click"
  /\ themeEvents' = themeEvents + 1
  /\ UNCHANGED <<osDark, themePc, fetchVars, budgetVars, gridVars, listVars>>

\* The page is left and loaded again: the document is new, localStorage stays.
ThemeReload ==
  /\ themePc # "load"
  /\ themeEvents < MaxThemeEvents
  /\ themePc' = "load"
  /\ themeDark' = FALSE
  /\ themeIcon' = "markup"
  /\ UNCHANGED <<themeStored, osDark, themeChose, themeLast, themeEvents,
                 fetchVars, budgetVars, gridVars, listVars>>

\* The user clears the site's data in the browser.
ThemeStorageCleared ==
  /\ themeStored # "none"
  /\ themeEvents < MaxThemeEvents
  /\ themeStored' = "none"
  /\ themeLast' = "cleared"
  /\ themeEvents' = themeEvents + 1
  /\ UNCHANGED <<themeDark, themeIcon, osDark, themePc, themeChose,
                 fetchVars, budgetVars, gridVars, listVars>>

\* A first visit: nothing stored, the script about to run.
ThemeInit ==
  /\ themeStored = "none"
  /\ themeDark = FALSE
  /\ themeIcon = "markup"
  /\ osDark = FALSE
  /\ themePc = "load"
  /\ themeChose = FALSE
  /\ themeLast = "none"
  /\ themeEvents = 0

Init == FetchInit /\ BudgetInit /\ GridInit /\ ListInit /\ ThemeInit

\* The queue under the callers fetchAllForGrid runs side by side.
QueueNext ==
  \/ \E f \in GridFetchers, id \in Idents : Fetch(f, id, MaxTasks)
  \/ \E p \in pumps, ok \in BOOLEAN, body \in Bodies, stored \in BOOLEAN :
        FnSettle(p, ok, body, stored)
  \/ \E p \in pumps : TimerFire(p)
  \/ \E d \in QueueTicks : Tick(d, MaxQueueTicks)

QueueSpec == Init /\ [][QueueNext]_vars

\* Every fetcher over the cache, with the clock moving past the TTLs.
CacheNext ==
  \/ \E f \in Fetchers, id \in Idents : Fetch(f, id, MaxCacheTasks)
  \/ \E p \in pumps, ok \in BOOLEAN, body \in Bodies, stored \in BOOLEAN :
        FnSettle(p, ok, body, stored)
  \/ \E p \in pumps : TimerFire(p)
  \/ \E d \in CacheTicks : Tick(d, MaxCacheTicks)

CacheSpec == Init /\ [][CacheNext]_vars

\* fillOrgCards: the cards one after the other, each with its deep topic fetches.
CardsNext ==
  \/ \E cfg \in DeepLimitConfigs, repos \in RepoLists : CardBegin(cfg, repos, TRUE)
  \/ \E ok \in BOOLEAN, names \in TopicLists : TopicsSettle(ok, names)

CardsSpec == Init /\ [][CardsNext]_vars

\* The cards of a page with at most MaxBootCards of them.
BootCard(cfg, repos, ok) ==
  /\ cardNo < MaxBootCards
  /\ CardBegin(cfg, repos, ok)

\* boot(): `await renderGrid()` once fillOrgCards returned.
BootRenderGrid(files, cfgs) ==
  /\ bootPc = "grid"
  /\ GridLoadManual(files, cfgs)

\* fetchAllForGrid over the manual files, with list fetches that find no cache
\* entry and answer, or whose first fails.
FailingCase == [age |-> -1, payload |-> <<>>, ok |-> FALSE, list |-> <<>>]

GridNext ==
  \/ GridLoadManual(ManualFiles, {DefaultGridConfig})
  \/ \E ok \in BOOLEAN, kind \in DetailKinds : GridHydrate(ok, kind)
  \/ \E user \in PlainCases(UserLists) \cup {FailingCase}, org \in PlainCases(OrgLists) :
        GridJoin(user, org, "pushed")

GridSpec == Init /\ [][GridNext]_vars

\* renderGrid as a whole: every configuration of the grid element, list
\* fetches over every state of their cache entries, every sort mode.
RenderNext ==
  \/ GridLoadManual(RenderFiles, GridConfigs)
  \/ \E ok \in BOOLEAN : GridHydrate(ok, "full")
  \/ \E user \in SourceCases(UserLists, UserPayload),
        org \in SourceCases(OrgLists, OrgPayload), mode \in SortModes :
        GridJoin(user, org, mode)

RenderSpec == Init /\ [][RenderNext]_vars

\* The filters and the sorts on every list of up to MaxList repositories, one
\* application in a behaviour.
\* boot() of a page with organization cards: fillOrgCards over the cards, whose
\* list fetches answer or fail, and then renderGrid.
BootFiles == {<<>>, <<[full_name |-> <<"a", "b">>, stars |-> Num(9)]>>}

BootNext ==
  \/ \E cfg \in {NoLimit, Limit(0)}, repos \in {RepoList(1, FALSE), RepoList(2, TRUE)},
        ok \in BOOLEAN : BootCard(cfg, repos, ok)
  \/ \E ok \in BOOLEAN, names \in TopicLists : TopicsSettle(ok, names)
  \/ CardsEnd
  \/ BootRenderGrid(BootFiles, {DefaultGridConfig})
  \/ \E ok \in BOOLEAN : GridHydrate(ok, "full")
  \/ \E user \in PlainCases(UserLists) \cup {FailingCase}, org \in PlainCases(OrgLists) :
        GridJoin(user, org, "pushed")

BootSpec == Init /\ [][BootNext]_vars

\* The same where every awaited request settles and the continuations run.
BootFairSpec == BootSpec /\ WF_vars(BootNext)

\* theme.js over page loads, OS changes, clicks and cleared storage.
ThemeNext ==
  \/ \E icons \in BOOLEAN : ThemeLoad(icons)
  \/ \E matches \in BOOLEAN : ThemeOsChange(matches)
  \/ ThemeClick
  \/ ThemeReload
  \/ ThemeStorageCleared

ThemeSpec == Init /\ [][ThemeNext]_vars

ListNext ==
  \/ ApplyGridFilters(ListInputs)
  \/ ApplyCardFilters(ListInputs)
  \/ ApplyCardFiltersBare(ListInputs)
  \/ SortRepos(ListInputs)
  \/ SortForCard(ListInputs)
  \/ CardTopics(TopicInputs)

ListSpec == Init /\ [][ListNext]_vars

\* ----------------------------------------------------------- the claims

TaskIds == 1..Len(tasks)

Executing == {t \in TaskIds : tasks[t].st = "running"}

\* C1: at every moment at most one task submitted through enqueue is executing
\* (its fn was called and has not settled), however the enqueue calls interleave
\* with the awaits of the pump loop.
C1_AtMostOneExecuting == Cardinality(Executing) <= 1

\* A task executes while two more callers have enqueued behind it.
C1_Witness == Cardinality(Executing) = 1 /\ Len(queue) >= 2

\* C2: tasks are started in exactly their submission order (ids are given in
\* submission order), and a task is started only when every task submitted before
\* it has settled.
C2_SubmissionOrder ==
  /\ \A i \in 1..Len(starts) : starts[i] = i
  /\ \A a, b \in TaskIds :
        (a < b /\ tasks[b].st # "queued") => tasks[a].st = "settled"

\* Three tasks have been started, the last one by a timer wake-up.
C2_Witness == Len(starts) >= 3 /\ lastVia = "timer"

\* C3: the fn calls of two consecutive tasks are never less than REQUEST_GAP_MS
\* apart.
C3_MinimumGap == lastGap # -1 => lastGap >= REQUEST_GAP_MS

\* A second task was enqueued after the pump had gone idle, and started at once.
C3_Witness == lastGap # -1 /\ lastVia = "enqueue"

\* C4: a task's promise is rejected exactly when its own fn failed and resolved
\* exactly when its own fn succeeded (pending until then), and the pump loop
\* lives on: while tasks wait in the queue an activation of pump is there to
\* take them, and `running` says so.
C4_FailureIsolated ==
  /\ \A t \in TaskIds :
        /\ tasks[t].promise = "rejected" <=> tasks[t].res = "fail"
        /\ tasks[t].promise = "resolved" <=> tasks[t].res = "ok"
        /\ tasks[t].st = "settled" <=> tasks[t].promise # "pending"
  /\ queue # <<>> => pumps # {}
  /\ running <=> pumps # {}

\* A task failed, and a task submitted after it was run and resolved.
C4_Witness ==
  \E a, b \in TaskIds :
    a < b /\ tasks[a].promise = "rejected" /\ tasks[b].promise = "resolved"

\* C5: a fetcher call that finds an entry younger than the fetcher's TTL returns
\* that entry's payload and enqueues nothing; a call that finds no entry, or one
\* at least TTL old, enqueues exactly one task.
C5_CacheReadPolicy ==
  lastRead.f # "none" =>
    IF lastRead.age # -1 /\ lastRead.age < TTLOf(lastRead.f)
      THEN lastRead.enqueued = 0 /\ lastRead.returned = lastRead.sawData
      ELSE lastRead.enqueued = 1

\* A call found an entry of exactly the TTL's age and dispatched.
C5_Witness ==
  lastRead.f # "none" /\ lastRead.age = TTLOf(lastRead.f) /\ lastRead.enqueued = 1

\* The task (if any) whose dispatch succeeds in this step.
SucceedsNow(t) == tasks[t].res = "none" /\ tasks'[t].res = "ok"

\* C6: no step deletes a cache entry, and an entry changes only in a step where a
\* dispatch for its own key succeeds, to that response's payload stamped with the
\* current time; a failed dispatch therefore leaves every entry as it was.
C6_EntriesOnlyOverwritten ==
  [][\A k \in Keys :
        /\ cache[k] # NoEntry => cache'[k] # NoEntry
        /\ cache'[k] # cache[k] =>
              \E t \in TaskIds :
                /\ SucceedsNow(t)
                /\ CacheKey(tasks[t].f, tasks[t].id) = k
                /\ cache'[k].ts = clock
                /\ \E body \in Bodies : cache'[k].data = PayloadOf(tasks[t].f, body)]_vars

\* A dispatch failed for a key whose entry is stale, and the entry is still there.
C6_Witness ==
  \E t \in TaskIds :
    LET k == CacheKey(tasks[t].f, tasks[t].id) IN
    /\ tasks[t].res = "fail"
    /\ cache[k] # NoEntry
    /\ clock - cache[k].ts >= TTLOf(tasks[t].f)

\* C7: the topic budget is never negative, no more than the ceiling of deep topic
\* fetches is ever attempted on one page, and with the budget at 0 no further one
\* is attempted.
C7_BudgetBounded ==
  /\ [](GLOBAL_TOPICS_FETCH_BUDGET >= 0 /\ attempts <= TopicsBudgetCeiling)
  /\ [][GLOBAL_TOPICS_FETCH_BUDGET = 0 => attempts' = attempts]_vars

\* The budget is used up and a further card with repositories lacking topics has
\* been filled.
C7_Witness ==
  /\ GLOBAL_TOPICS_FETCH_BUDGET = 0
  /\ budgetAtStart = 0
  /\ cardStatus = "list"
  /\ \E i \in 1..Len(cardRepos) : LacksTopics(cardRepos[i])

\* C8: whenever no fetch is in flight, the budget left is the ceiling less the
\* number of deep topic fetches attempted, whether they succeeded or failed.
C8_ChargedPerAttempt ==
  cardPc = "idle" => GLOBAL_TOPICS_FETCH_BUDGET = TopicsBudgetCeiling - attempts

\* A card is done whose fetches did not all succeed.
C8_Witness ==
  /\ cardPc = "idle"
  /\ cardAttempts >= 2
  /\ \E i \in 1..Len(need) : LacksTopics(cardRepos[need[i]])
  /\ \E i \in 1..Len(need) : ~LacksTopics(cardRepos[need[i]])

\* The cap a card's configuration states: topics_deep_limit, 24 when it has none.
ConfiguredCap(cfg) == IF cfg.set THEN cfg.v ELSE DefaultDeepLimit

\* C9: the deep topic fetches attempted for a card are at most
\* min(the card's configured cap, the budget left when its batch started).
C9_CardCapRespected ==
  cardAttempts <= Min(ConfiguredCap(cardCfg), budgetAtStart)

\* The position of the last record of list with the full name of list[i].
IsLastOfItsName(list, i) ==
  \A j \in 1..Len(list) : list[j].full_name = list[i].full_name => j <= i

\* C10: the collection fetchAllForGrid returns holds exactly one record for each
\* full name among the fetched and the hydrated manual records, and the record
\* for a manual record's full name carries that manual record's value in every
\* property the manual record has (with several manual records of one full name,
\* the last one's, as later sources overwrite earlier ones).
C10_OnePerFullNameManualWins ==
  gridPc = "merged" =>
    /\ \A i, j \in 1..Len(gridRaw) :
          gridRaw[i].full_name = gridRaw[j].full_name => i = j
    /\ {gridRaw[i].full_name : i \in 1..Len(gridRaw)}
          = {gridFetched[i].full_name : i \in 1..Len(gridFetched)}
              \cup {hydrated[i].full_name : i \in 1..Len(hydrated)}
    /\ \A i \in 1..Len(hydrated) :
          IsLastOfItsName(hydrated, i) =>
            \E j \in 1..Len(gridRaw) :
              /\ gridRaw[j].full_name = hydrated[i].full_name
              /\ \A f \in DOMAIN hydrated[i] : gridRaw[j][f] = hydrated[i][f]

\* The user's list has a/b with 5 stars, the manual file a/b with 9, and the one
\* record for a/b has 9.
C10_Witness ==
  /\ gridPc = "merged"
  /\ \E i \in 1..Len(gridFetched) :
        gridFetched[i].full_name = <<"a", "b">> /\ gridFetched[i].stargazers_count = 5
  /\ \E i \in 1..Len(hydrated) :
        hydrated[i].full_name = <<"a", "b">> /\ hydrated[i].stargazers_count = 9
  /\ \E i \in 1..Len(gridRaw) :
        gridRaw[i].full_name = <<"a", "b">> /\ gridRaw[i].stargazers_count = 9

\* The entries of the file that normalizeManualRepo made the records of
\* manualBase from, in the same order.
KeptEntries == SelectSeq(manualFile, LAMBDA it : ~Unresolved(FullOf(it)))

\* The star value an entry supplies (stars, or else stargazers_count), and
\* whether it supplies a finite number.
StarsGiven(it) ==
  IF Has(it, "stars") THEN it.stars
  ELSE IF Has(it, "stargazers_count") THEN it.stargazers_count
  ELSE NaN

\* The text the API answered in a field that may be null.
TextOfApi(v) == IF v = JsNull THEN "" ELSE v

\* C11: a manual record hydrated with a successful detail fetch ends with the
\* entry's star count if the entry supplied a finite number, and with the
\* fetched star count otherwise.
C11_StarsManualElseFetched ==
  \A k \in 1..Len(hydrLog) :
    LET e == hydrLog[k]
        given == StarsGiven(KeptEntries[e.at])
    IN e.ok =>
         hydrated[e.at].stargazers_count
           = IF given.fin THEN given.v ELSE e.fetched.stargazers_count

\* C12: a manual record hydrated with a successful detail fetch ends with the
\* fetched topic list if the entry's topics are empty or missing, and with the
\* entry's own list if that is not empty.
C12_TopicsManualElseFetched ==
  \A k \in 1..Len(hydrLog) :
    LET e == hydrLog[k]
        it == KeptEntries[e.at]
        own == IF Has(it, "topics") THEN it.topics ELSE <<>>
        live == IF Has(e.fetched, "topics") THEN e.fetched.topics ELSE <<>>
    IN e.ok => hydrated[e.at].topics = IF own # <<>> THEN own ELSE live

\* Two successful hydrations in one load: an entry with topics z kept them
\* though x, y were fetched, and an entry without topics got x, y.
C12_Witness ==
  /\ \E k \in 1..Len(hydrLog) :
       LET e == hydrLog[k] IN
       /\ e.ok /\ Has(e.fetched, "topics") /\ e.fetched.topics = <<"x", "y">>
       /\ Has(KeptEntries[e.at], "topics") /\ KeptEntries[e.at].topics = <<"z">>
       /\ hydrated[e.at].topics = <<"z">>
  /\ \E k \in 1..Len(hydrLog) :
       LET e == hydrLog[k] IN
       /\ e.ok /\ Has(e.fetched, "topics")
       /\ ~Has(KeptEntries[e.at], "topics")
       /\ hydrated[e.at].topics = <<"x", "y">>

\* C13: a manual record hydrated with a successful detail fetch ends, in
\* description, language, URL and the archived, fork and private flags, with the
\* entry's value where the entry set the field and with the fetched value where
\* it did not.
C13_FieldsFetchedUnlessSet ==
  \A k \in 1..Len(hydrLog) :
    LET e == hydrLog[k]
        it == KeptEntries[e.at]
        final == hydrated[e.at]
    IN e.ok =>
         /\ final.description = IF Has(it, "description") THEN it.description
                                ELSE TextOfApi(e.fetched.description)
         /\ final.language = IF Has(it, "language") THEN it.language
                             ELSE TextOfApi(e.fetched.language)
         /\ final.html_url = IF Has(UrlOf(it), "u") THEN UrlOf(it).u ELSE e.fetched.html_url
         /\ \A f \in {"archived", "fork", "private"} :
               final[f] = IF Has(it, f) THEN it[f] ELSE e.fetched[f]

\* C14: hydrateManualRepos puts out one record for each record it has passed,
\* in order and with the same full name, all of them once it is done; and a
\* record whose detail fetch failed is the manual record itself.
C14_FallbackKeepsEveryRecord ==
  /\ Len(hydrated) <= Len(manualBase)
  /\ gridPc \in {"joining", "merged", "error"} => Len(hydrated) = Len(manualBase)
  /\ \A i \in 1..Len(hydrated) : hydrated[i].full_name = manualBase[i].full_name
  /\ \A k \in 1..Len(hydrLog) :
        ~hydrLog[k].ok => hydrated[hydrLog[k].at] = manualBase[hydrLog[k].at]

\* Hydration is done with two records: the detail fetch of a pinned one failed,
\* and the other's answered under another full name.
C14_Witness ==
  /\ gridPc = "joining"
  /\ Len(hydrated) = 2
  /\ \E k \in 1..Len(hydrLog) :
        ~hydrLog[k].ok /\ hydrated[hydrLog[k].at]._pinned
  /\ \E k \in 1..Len(hydrLog) :
        /\ hydrLog[k].ok
        /\ hydrLog[k].fetched.full_name # manualBase[hydrLog[k].at].full_name

\* A record passes the filters of the grid as it is configured.
PassesGridFilters(r) ==
  /\ ~r.private
  /\ gridCfg.exForks => ~r.fork
  /\ gridCfg.exArch => ~r.archived

\* C15: whatever list or detail fetches of a grid load fail, once renderGrid is
\* through the grid shows a card for every manual record that passes the
\* filters.
C15_ManualEntriesAlwaysShown ==
  gridPc \in {"merged", "error"} =>
    \A i \in 1..Len(hydrated) :
      PassesGridFilters(hydrated[i]) =>
        \E j \in 1..Len(gridShown) : gridShown[j].full_name = hydrated[i].full_name

\* C16: when every list fetch whose request failed has a cache entry, fresh or
\* not, the grid is rendered, with the cached payload of each such fetch among
\* the fetched records; the error is shown only if a request failed that has no
\* cache entry.
C16_StaleCacheBeforeError ==
  gridPc \in {"merged", "error"} =>
    /\ gridPc = "error" =>
         \E s \in 1..Len(gridSources) : gridSources[s].failed /\ gridSources[s].age = -1
    /\ (\A s \in 1..Len(gridSources) : gridSources[s].failed => gridSources[s].age # -1) =>
         /\ gridPc = "merged"
         /\ \A s \in 1..Len(gridSources) :
              gridSources[s].failed =>
                \A i \in 1..Len(gridSources[s].payload) :
                  \E j \in 1..Len(gridFetched) : gridFetched[j] = gridSources[s].payload[i]

\* A full name of the form owner/name, neither part empty.
OwnerSlashName(full) == Len(full) = 2 /\ full[1] # "" /\ full[2] # ""

\* C17: every record the loader passes on, and so every record hydration hands
\* to the merge, has a full name of the form owner/name.
C17_OnlyResolvedIdentities ==
  /\ \A i \in 1..Len(manualBase) : OwnerSlashName(manualBase[i].full_name)
  /\ \A i \in 1..Len(hydrated) : OwnerSlashName(hydrated[i].full_name)

\* The entries of the file that are objects with an identity the loader
\* resolves and with texts where it expects texts.
ValidEntries ==
  SelectSeq(manualFile, LAMBDA it : ~NormalizeThrows(it) /\ ~Unresolved(FullOf(it)))

\* C18: the loader's output is the valid entries of the file, each of them and
\* in the file's order, whatever malformed entries stand among them.
C18_MalformedDroppedAlone ==
  gridPc # "boot" =>
    /\ Len(manualBase) = Len(ValidEntries)
    /\ \A i \in 1..Len(ValidEntries) : manualBase[i].full_name = FullOf(ValidEntries[i])

\* Whether the filter applied had fork and archive exclusion on: a card has
\* them on unless its configuration says false, the grid as its element says.
ForksExcluded == ~listArgs.forks.set \/ listArgs.forks.v
ArchivedExcluded == ~listArgs.arch.set \/ listArgs.arch.v

\* C19: what applyGridFilters and applyCardFilters leave is the input without
\* the private records, without the forks when fork exclusion is on and without
\* the archived records when archive exclusion is on: every other record, in the
\* input's order.
C19_FiltersExcludeExactly ==
  listOp \in {"applyGridFilters", "applyCardFilters"} =>
    listOut = SelectSeq(listIn, LAMBDA r : ~(\/ r.private
                                             \/ ForksExcluded /\ r.fork
                                             \/ ArchivedExcluded /\ r.archived))

\* A card configured with exclude_forks false and no exclude_archived was given
\* a fork, a private and an archived repository and kept the fork alone.
C19_Witness ==
  /\ listOp = "applyCardFilters"
  /\ listArgs.forks = FlagSet(FALSE) /\ listArgs.arch = NoFlag
  /\ Len(listIn) = 3
  /\ listIn[1].fork /\ listIn[2].private /\ listIn[3].archived
  /\ listOut = <<listIn[1]>>

\* How often r stands in list.
Count(list, r) == Cardinality({i \in 1..Len(list) : list[i] = r})

\* C20: sortRepos and sortForCard with mode "stars" leave a permutation of the
\* input in which the star counts never rise and, among records of one star
\* count, the names never fall.
C20_StarsThenName ==
  listOp \in {"sortRepos", "sortForCard"} /\ listArgs.mode = "stars" =>
    /\ Len(listOut) = Len(listIn)
    /\ \A i \in 1..Len(listIn) : Count(listOut, listIn[i]) = Count(listIn, listIn[i])
    /\ \A i, j \in 1..Len(listOut) :
         i < j =>
           /\ listOut[i].stargazers_count >= listOut[j].stargazers_count
           /\ listOut[i].stargazers_count = listOut[j].stargazers_count =>
                Collate(listOut[i].name) <= Collate(listOut[j].name)

\* sortRepos by stars was given d and b with 5 stars each and then a
\* repository with 9: that one is first, then b, then d.
C20_Witness ==
  /\ listOp = "sortRepos" /\ listArgs.mode = "stars"
  /\ Len(listIn) = 3
  /\ listIn[1].name = "d" /\ listIn[2].name = "b"
  /\ listIn[1].stargazers_count = 5 /\ listIn[2].stargazers_count = 5
  /\ listIn[3].stargazers_count = 9
  /\ listOut = <<listIn[3], listIn[2], listIn[1]>>

\* The names of the records of list, in order.
NamesOf(list) == [i \in 1..Len(list) |-> list[i].name]

\* A sort by stars was given b and a with 5 stars each and then c with 9.
SortedTheExample ==
  /\ listOp \in {"sortRepos", "sortForCard"} /\ listArgs.mode = "stars"
  /\ NamesOf(listIn) = <<"b", "a", "c">>
  /\ listIn[1].stargazers_count = 5 /\ listIn[2].stargazers_count = 5
  /\ listIn[3].stargazers_count = 9

\* C21, as stated: sorting [b (5 stars), a (5), c (9)] by stars yields c, b, a.
C21_ExampleAsStated == SortedTheExample => NamesOf(listOut) = <<"c", "b", "a">>

\* C21, amended: sorting [b (5 stars), a (5), c (9)] by stars yields c, a, b:
\* the tie of a and b is broken by name, ascending.
C21_ExampleTieByName == SortedTheExample => NamesOf(listOut) = <<"c", "a", "b">>

\* sortForCard sorted the example.
C21_Witness == SortedTheExample /\ listOp = "sortForCard" /\ Len(listOut) = 3

\* The grid was rendered and shows these records: the pinned ones, and the
\* others.
GridPinned == SelectSeq(gridShown, LAMBDA r : isPinnedGrid(r, gridCfg.pinned))
GridOthers == SelectSeq(gridShown, LAMBDA r : ~isPinnedGrid(r, gridCfg.pinned))

\* The names of list ascend.
NamesAscend(list) ==
  \A i, j \in 1..Len(list) : i < j => localeCompare(list[i].name, list[j].name) <= 0

\* C22: when the grid is rendered with the sort mode "name", the pinned records
\* it shows are in ascending order of their names, and so are the others.
C22_GridHonoursNameMode ==
  gridPc = "merged" /\ gridMode = "name" => NamesAscend(GridPinned) /\ NamesAscend(GridOthers)

\* C23: in the grid every pinned record precedes every record that is not
\* pinned, and the pinned records stand in the order the sort by mode left them
\* in, and so do the others.
C23_PinnedFirstOrderKept ==
  gridPc = "merged" =>
    gridShown = SelectSeq(gridSorted, LAMBDA r : isPinnedGrid(r, gridCfg.pinned))
                  \o SelectSeq(gridSorted, LAMBDA r : ~isPinnedGrid(r, gridCfg.pinned))

\* The sort left three records with the pinned one in the middle, and the grid
\* shows it first.
C23_Witness ==
  /\ gridPc = "merged" /\ Len(gridSorted) = 3
  /\ ~isPinnedGrid(gridSorted[1], gridCfg.pinned)
  /\ isPinnedGrid(gridSorted[2], gridCfg.pinned)
  /\ ~isPinnedGrid(gridSorted[3], gridCfg.pinned)
  /\ gridShown = <<gridSorted[2], gridSorted[1], gridSorted[3]>>

\* The places of the topics in repos, and the topic at a place, lower-cased.
TopicPlaces(repos) ==
  UNION {{<<i, j>> : j \in 1..Len(TopicsOf(repos[i]))} : i \in 1..Len(repos)}
LoweredAt(repos, pl) == ToLower(TopicsOf(repos[pl[1]])[pl[2]])

\* C24: a card's topic table has one entry for each distinct lower-cased topic
\* of the card's filtered repositories, with the number of that topic's
\* occurrences as its count, in descending order of the counts and ascending
\* order of the names among equal counts; the chips show its first topics_max
\* entries when topics_max > 0 and every entry otherwise.
C24_TopicTable ==
  listOp = "cardTopics" =>
    LET places == TopicPlaces(listIn)
        table == listOut.table
        max == IF listArgs.max.set THEN listArgs.max.v ELSE 0
    IN /\ {table[i].k : i \in 1..Len(table)} = {LoweredAt(listIn, pl) : pl \in places}
       /\ \A i, j \in 1..Len(table) : table[i].k = table[j].k => i = j
       /\ \A i \in 1..Len(table) :
            table[i].v = Cardinality({pl \in places : LoweredAt(listIn, pl) = table[i].k})
       /\ \A i, j \in 1..Len(table) :
            i < j => \/ table[i].v > table[j].v
                     \/ /\ table[i].v = table[j].v
                        /\ localeCompare(table[i].k, table[j].k) < 0
       /\ listOut.chips = IF max > 0 /\ max < Len(table) THEN SubSeq(table, 1, max) ELSE table

\* A card with topics_max 2 whose repositories have y, t, X, x and t, in this
\* order: t and x, twice each, are the chips, and y is left out.
C24_Witness ==
  /\ listOp = "cardTopics" /\ listArgs.max = Limit(2)
  /\ [i \in 1..Len(listIn) |-> TopicsOf(listIn[i])] = <<<<"y", "t">>, <<"X">>, <<"x", "t">>>>
  /\ listOut.table = <<[k |-> "t", v |-> 2], [k |-> "x", v |-> 2], [k |-> "y", v |-> 1]>>
  /\ listOut.chips = <<[k |-> "t", v |-> 2], [k |-> "x", v |-> 2]>>

\* Every card shows an error exactly if its own list fetch failed, and every
\* card the loop has left shows its list or its error.
CardsShowTheirOwn ==
  \A i \in 1..Len(cardLog) :
    /\ cardLog[i].shows = "error" <=> ~cardLog[i].ok
    /\ (i < Len(cardLog) \/ cardPc = "idle") => cardLog[i].shows \in {"list", "error"}

SomeCardFailed == \E i \in 1..Len(cardLog) : ~cardLog[i].ok

GridRendered == gridPc \in {"merged", "error"}

\* C25: a card whose list fetch fails shows an error and no other card does:
\* every card before and after it shows its own result; fillOrgCards never
\* rejects, and after a card failed renderGrid still runs to its end.
C25_CardFailureIsolated ==
  /\ [](CardsShowTheirOwn /\ bootPc # "failed")
  /\ (SomeCardFailed ~> GridRendered)

\* The second of three cards failed, the first and the third show their lists,
\* and the grid was rendered.
C25_Witness ==
  /\ Len(cardLog) = 3
  /\ cardLog[1] = [ok |-> TRUE, shows |-> "list"]
  /\ cardLog[2] = [ok |-> FALSE, shows |-> "error"]
  /\ cardLog[3] = [ok |-> TRUE, shows |-> "list"]
  /\ gridPc = "merged"

\* C26: when the user has never chosen a theme with the toggle button, an OS
\* colour-scheme change after the page's initialization switches the page to
\* the new OS preference.
C26_FollowsOsUntilChosen ==
  [][(themePc = "ready" /\ ~themeChose /\ osDark' # osDark) => themeDark' = osDark']_vars

====
